---- MODULE Spec2Model ----
(***************************************************************************)
(* chartjs-plugin-area (src/src/index.ts) as a state machine: the colour   *)
(* engine of the Area controller (ColorUtils) and the controller itself    *)
(* (AreaController).  Spec has a caller that owns an ordered array of      *)
(* colour zones and invokes the static helpers on it; SpecColor has the    *)
(* colour conversion on its own; SpecController has the controller in its  *)
(* chart, from initialize() through updates, with user code assigning      *)
(* options of the dataset in between.  The record of the last invocation   *)
(* and its result is part of the observable state.                         *)
(***************************************************************************)
EXTENDS Integers, Sequences, FiniteSets, TLC

VARIABLES
    zones,      \* the caller's colorZones array (dataset.colorZones)
    ret,        \* the invocation in progress: its arguments and its result
    ds,         \* the other options of the chart's dataset (getDataset())
    ctl         \* the controller: its own dataset (this.dataset) and its line

vars == <<zones, ret, ds, ctl>>

\* fraction digits printed for a number (the opacities used have at most two)
MaxFracDigits == 6

(***************************************************************************)
(* JavaScript numbers.  A number is a rational n/d in lowest terms, plus   *)
(* or minus Infinity, or NaN; "undef" is the value undefined where a       *)
(* number is optional.  All four kinds share one record shape.             *)
(***************************************************************************)
RECURSIVE GCD(_, _)
GCD(a, b) == IF b = 0 THEN a ELSE GCD(b, a % b)

Abs(i) == IF i < 0 THEN -i ELSE i

Frac(n, d) ==
    LET s == IF d < 0 THEN -1 ELSE 1
        g == GCD(Abs(n), Abs(d))
    IN  [k |-> "fin", n |-> (s * n) \div g, d |-> (s * d) \div g]

JSNum(i)  == [k |-> "fin", n |-> i, d |-> 1]
PosInf    == [k |-> "inf", n |-> 1, d |-> 1]
NegInf    == [k |-> "inf", n |-> -1, d |-> 1]
NaN       == [k |-> "nan", n |-> 0, d |-> 1]
UndefNum  == [k |-> "undef", n |-> 0, d |-> 1]

IsNaN(x) == x.k = "nan"

\* x < y on numbers; any comparison with NaN is false
Lt(x, y) ==
    /\ ~IsNaN(x) /\ ~IsNaN(y)
    /\ IF x.k = "inf" /\ y.k = "inf" THEN x.n < y.n
       ELSE IF x.k = "inf" THEN x.n < 0
       ELSE IF y.k = "inf" THEN y.n > 0
       ELSE x.n * y.d < y.n * x.d

\* x === y on numbers; NaN equals nothing
StrictEq(x, y) == ~IsNaN(x) /\ ~IsNaN(y) /\ x = y

Le(x, y) == Lt(x, y) \/ StrictEq(x, y)
Ge(x, y) == Le(y, x)

\* x - y
Sub(x, y) ==
    IF IsNaN(x) \/ IsNaN(y) THEN NaN
    ELSE IF x.k = "inf" /\ y.k = "inf" THEN (IF x.n = y.n THEN NaN ELSE x)
    ELSE IF x.k = "inf" THEN x
    ELSE IF y.k = "inf" THEN (IF y.n > 0 THEN NegInf ELSE PosInf)
    ELSE Frac(x.n * y.d - y.n * x.d, x.d * y.d)

\* x + y
Add(x, y) ==
    IF IsNaN(x) \/ IsNaN(y) THEN NaN
    ELSE IF x.k = "inf" /\ y.k = "inf" THEN (IF x.n = y.n THEN x ELSE NaN)
    ELSE IF x.k = "inf" THEN x
    ELSE IF y.k = "inf" THEN y
    ELSE Frac(x.n * y.d + y.n * x.d, x.d * y.d)

\* x / r for a finite r > 0
DivPos(x, r) ==
    IF IsNaN(x) THEN NaN
    ELSE IF x.k = "inf" THEN x
    ELSE Frac(x.n * r.d, x.d * r.n)

\* x / r for any finite r: a zero divisor gives an infinity, or NaN for 0 / 0
Div(x, r) ==
    IF IsNaN(x) THEN NaN
    ELSE IF r.n = 0
         THEN (IF x.n = 0 THEN NaN ELSE IF x.n > 0 THEN PosInf ELSE NegInf)
    ELSE IF x.k = "inf"
         THEN (IF (x.n > 0) = (r.n > 0) THEN PosInf ELSE NegInf)
    ELSE Frac(x.n * r.d, x.d * r.n)

\* Math.min and Math.max: NaN if either argument is NaN
MathMin(x, y) == IF IsNaN(x) \/ IsNaN(y) THEN NaN ELSE IF Lt(y, x) THEN y ELSE x
MathMax(x, y) == IF IsNaN(x) \/ IsNaN(y) THEN NaN ELSE IF Lt(x, y) THEN y ELSE x

\* a parameter with a default value: the default replaces undefined
OrDefault(x, dflt) == IF x.k = "undef" THEN dflt ELSE x

(***************************************************************************)
(* Colours (ChartJS.Color): a string, held as its sequence of characters,  *)
(* a non-string object (CanvasGradient, CanvasPattern), held with the      *)
(* characters of its String() conversion, or undefined.                    *)
(***************************************************************************)
Str(chars)  == [t |-> "str", s |-> chars]
Obj(chars)  == [t |-> "obj", s |-> chars]
UndefColor  == [t |-> "undef", s |-> <<>>]

\* JavaScript truthiness of a colour: undefined and "" are falsy
Truthy(c) == c.t = "obj" \/ (c.t = "str" /\ c.s # <<>>)

(***************************************************************************)
(* Characters and strings.  A string is the sequence of its characters.    *)
(***************************************************************************)
Digits     == {"0", "1", "2", "3", "4", "5", "6", "7", "8", "9"}
HexChars   == <<"0", "1", "2", "3", "4", "5", "6", "7", "8", "9",
                "a", "b", "c", "d", "e", "f">>
UpperChars == <<"A", "B", "C", "D", "E", "F", "G", "H", "I", "J", "K", "L", "M",
                "N", "O", "P", "Q", "R", "S", "T", "U", "V", "W", "X", "Y", "Z">>
LowerChars == <<"a", "b", "c", "d", "e", "f", "g", "h", "i", "j", "k", "l", "m",
                "n", "o", "p", "q", "r", "s", "t", "u", "v", "w", "x", "y", "z">>
\* the characters \s matches
WS         == {" ", "\t", "\n"}

\* the regular expressions' i flag: letters compare in lower case
Lower(c) ==
    IF \E i \in 1..26 : UpperChars[i] = c
    THEN LowerChars[CHOOSE i \in 1..26 : UpperChars[i] = c]
    ELSE c

HexVal(c)     == (CHOOSE i \in 1..16 : HexChars[i] = Lower(c)) - 1

\* the character at position i, "" past either end
At(s, i) == IF i >= 1 /\ i <= Len(s) THEN s[i] ELSE ""

\* s[i .. e-1]
Slice(s, i, e) == SubSeq(s, i, e - 1)

\* the position after the longest run of characters of cs that starts at i
RECURSIVE RunEnd(_, _, _)
RunEnd(s, i, cs) == IF At(s, i) \in cs THEN RunEnd(s, i + 1, cs) ELSE i

SkipWS(s, i) == RunEnd(s, i, WS)

\* the position before the longest run of white space that ends at i
RECURSIVE RunStart(_, _)
RunStart(s, i) == IF At(s, i) \in WS THEN RunStart(s, i - 1) ELSE i

\* String.prototype.trim
Trim(s) ==
    LET a == SkipWS(s, 1)
        b == RunStart(s, Len(s))
    IN  IF a > b THEN <<>> ELSE SubSeq(s, a, b)

\* s begins, at position i, with the lower-case word w (letters in any case)
HasWord(s, i, w) == \A j \in 1..Len(w) : Lower(At(s, i + j - 1)) = w[j]

\* decimal digits of a natural number
RECURSIVE NatToChars(_)
NatToChars(n) ==
    IF n < 10 THEN <<HexChars[n + 1]>>
    ELSE NatToChars(n \div 10) \o <<HexChars[(n % 10) + 1]>>

\* the digits of the fraction r/d (0 <= r < d) after the decimal point
RECURSIVE FracChars(_, _, _)
FracChars(r, d, left) ==
    IF r = 0 \/ left = 0 THEN <<>>
    ELSE <<HexChars[((10 * r) \div d) + 1]>> \o FracChars((10 * r) % d, d, left - 1)

\* Number to string, as a template literal converts a number
NumToString(x) ==
    CASE x.k = "nan" -> <<"N", "a", "N">>
      [] x.k = "inf" ->
            (IF x.n < 0 THEN <<"-">> ELSE <<>>)
                \o <<"I", "n", "f", "i", "n", "i", "t", "y">>
      [] x.k = "undef" -> <<"u", "n", "d", "e", "f", "i", "n", "e", "d">>
      [] OTHER ->
            LET a == Abs(x.n)
                f == FracChars(a % x.d, x.d, MaxFracDigits)
            IN  (IF x.n < 0 THEN <<"-">> ELSE <<>>)
                    \o NatToChars(a \div x.d)
                    \o (IF f = <<>> THEN <<>> ELSE <<".">> \o f)

\* Array.prototype.join(',') over strings
RECURSIVE Join(_)
Join(parts) ==
    IF parts = <<>> THEN <<>>
    ELSE IF Len(parts) = 1 THEN parts[1]
    ELSE parts[1] \o <<",">> \o Join(Tail(parts))

(***************************************************************************)
(* Regular expressions.  A pattern is a tree of nodes; Run gives every way *)
(* a node can match at a position, in the order a backtracking matcher     *)
(* tries them (a greedy quantifier tries the longest first), each with the *)
(* position after the match and the capture groups as they then stand.     *)
(* A group that took no part in the match is undefined.                    *)
(***************************************************************************)
Group(chars) == [def |-> TRUE, s |-> chars]
NoGroup      == [def |-> FALSE, s |-> <<>>]

\* a literal, letters in lower case: it matches whatever the case
Lit(w)          == [k |-> "lit", w |-> w]
\* lo to hi characters of a class, as many as possible; hi = -1: any number
Cls(cs, lo, hi) == [k |-> "cls", cs |-> cs, lo |-> lo, hi |-> hi]
\* a sequence of nodes
Cat(rs)         == [k |-> "cat", rs |-> rs]
\* r1|r2|...
Alt(rs)         == [k |-> "alt", rs |-> rs]
\* r?
Opt(r)          == [k |-> "opt", r |-> r]
\* capture group n
Cap(n, r)       == [k |-> "cap", n |-> n, r |-> r]
\* $
End             == [k |-> "end"]

Outcome(pos, caps) == [pos |-> pos, caps |-> caps]

\* the position after the longest run, at i, of characters whose lower case
\* is in cs
RECURSIVE ClassEnd(_, _, _)
ClassEnd(s, i, cs) ==
    IF i <= Len(s) /\ Lower(s[i]) \in cs THEN ClassEnd(s, i + 1, cs) ELSE i

RECURSIVE Run(_, _, _, _)
RECURSIVE RunCat(_, _, _, _)
RECURSIVE RunAlt(_, _, _, _)
RECURSIVE RunRest(_, _, _)

\* the rest of a sequence after each outcome of its first node
RunRest(rs, s, outs) ==
    IF outs = <<>> THEN <<>>
    ELSE RunCat(rs, s, outs[1].pos, outs[1].caps) \o RunRest(rs, s, Tail(outs))

RunCat(rs, s, i, caps) ==
    IF rs = <<>> THEN <<Outcome(i, caps)>>
    ELSE RunRest(Tail(rs), s, Run(rs[1], s, i, caps))

RunAlt(rs, s, i, caps) ==
    IF rs = <<>> THEN <<>>
    ELSE Run(rs[1], s, i, caps) \o RunAlt(Tail(rs), s, i, caps)

Run(r, s, i, caps) ==
    CASE r.k = "lit" ->
            IF HasWord(s, i, r.w) THEN <<Outcome(i + Len(r.w), caps)>> ELSE <<>>
      [] r.k = "cls" ->
            LET avail == ClassEnd(s, i, r.cs) - i
                top   == IF r.hi >= 0 /\ r.hi < avail THEN r.hi ELSE avail
            IN  IF top < r.lo THEN <<>>
                ELSE [n \in 1..(top - r.lo + 1) |-> Outcome(i + top - n + 1, caps)]
      [] r.k = "cat" -> RunCat(r.rs, s, i, caps)
      [] r.k = "alt" -> RunAlt(r.rs, s, i, caps)
      [] r.k = "opt" -> Run(r.r, s, i, caps) \o <<Outcome(i, caps)>>
      [] r.k = "cap" ->
            LET outs == Run(r.r, s, i, caps)
            IN  [n \in 1..Len(outs) |->
                    Outcome(outs[n].pos,
                            [outs[n].caps EXCEPT ![r.n] = Group(Slice(s, i, outs[n].pos))])]
      [] r.k = "end" ->
            IF i = Len(s) + 1 THEN <<Outcome(i, caps)>> ELSE <<>>

NoMatch      == [ok |-> FALSE, g |-> <<>>]
Matched(gs)  == [ok |-> TRUE, g |-> gs]

\* String.prototype.match with a pattern anchored at the start, of n groups:
\* the groups of the first way the pattern matches, or null
Match(s, re, n) ==
    LET outs == Run(re, s, 1, [g \in 1..n |-> NoGroup])
    IN  IF outs = <<>> THEN NoMatch ELSE Matched(outs[1].caps)

(***************************************************************************)
(* The four colour patterns of ColorUtils.                                 *)
(***************************************************************************)
HexSet == {HexChars[i] : i \in 1..16}

\* \s* and \s+
Spaces     == Cls(WS, 0, -1)
SomeSpaces == Cls(WS, 1, -1)
\* \d{1,3}(?:\.\d+)?
Component  == Cat(<<Cls(Digits, 1, 3), Opt(Cat(<<Lit(<<".">>), Cls(Digits, 1, -1)>>))>>)
\* [-+]?\d{1,3}(?:\.\d+)?
Signed     == Cat(<<Opt(Cls({"-", "+"}, 1, 1)), Component>>)
\* \s*(?:,\s*|\s+)\s*
Separator  == Cat(<<Spaces, Alt(<<Cat(<<Lit(<<",">>), Spaces>>), SomeSpaces>>), Spaces>>)
\* \s*(?:,\s*|\s+)?(?:\s*\/?\s*([\d.]+%?)\s*)?\)$ with the alpha as group n
AlphaTail(n) ==
    Cat(<<Spaces,
          Opt(Alt(<<Cat(<<Lit(<<",">>), Spaces>>), SomeSpaces>>)),
          Opt(Cat(<<Spaces, Opt(Lit(<<"/">>)), Spaces,
                    Cap(n, Cat(<<Cls(Digits \cup {"."}, 1, -1), Opt(Lit(<<"%">>))>>)),
                    Spaces>>)),
          Lit(<<")">>), End>>)

\* ColorUtils.RGB
RGB ==
    Cat(<<Lit(<<"r", "g", "b">>), Opt(Lit(<<"a">>)), Lit(<<"(">>), Spaces,
          Cap(1, Component), Separator,
          Cap(2, Component), Separator,
          Cap(3, Component), AlphaTail(4)>>)

\* ColorUtils.HSL
HSL ==
    Cat(<<Lit(<<"h", "s", "l">>), Opt(Lit(<<"a">>)), Lit(<<"(">>), Spaces,
          Cap(1, Signed),
          Opt(Cap(2, Alt(<<Lit(<<"d", "e", "g">>), Lit(<<"g", "r", "a", "d">>),
                           Lit(<<"r", "a", "d">>)>>))),
          Separator,
          Cap(3, Signed), Lit(<<"%">>), Separator,
          Cap(4, Signed), Lit(<<"%">>), AlphaTail(5)>>)

\* ColorUtils.HEX34
HEX34 ==
    Cat(<<Lit(<<"#">>), Cap(1, Cls(HexSet, 1, 1)), Cap(2, Cls(HexSet, 1, 1)),
          Cap(3, Cls(HexSet, 1, 1)), Opt(Cap(4, Cls(HexSet, 1, 1))), End>>)

\* ColorUtils.HEX68
HEX68 ==
    Cat(<<Lit(<<"#">>), Cap(1, Cls(HexSet, 2, 2)), Cap(2, Cls(HexSet, 2, 2)),
          Cap(3, Cls(HexSet, 2, 2)), Opt(Cap(4, Cls(HexSet, 2, 2))), End>>)

\* a pattern with the number of its groups
Pattern(re, groups) == [re |-> re, groups |-> groups]

\* parseInt(v, 16) of one or two hex digits
RECURSIVE ParseHex(_)
ParseHex(v) ==
    IF v = <<>> THEN 0
    ELSE 16 * ParseHex(SubSeq(v, 1, Len(v) - 1)) + HexVal(v[Len(v)])

(***************************************************************************)
(* ColorUtils.parseColor: the string with the alpha injected, or undefined *)
(* (ok = FALSE) when the pattern does not match.                           *)
(***************************************************************************)
parseColor(color, as, re, alpha, isHex) ==
    LET match == Match(Trim(color), re.re, re.groups)
        a == OrDefault(alpha, JSNum(1))
        \* match.slice( 1, 4 ).map( v => isHex ? parseInt( ... ) : v )
        comp(v) == IF isHex
                   THEN NatToChars(ParseHex(IF Len(v.s) = 1 THEN v.s \o v.s ELSE v.s))
                   ELSE v.s     \* join() prints an undefined element as ''
    IN  IF match.ok
        THEN [ok |-> TRUE,
              s |-> as \o <<"(">>
                    \o Join(<<comp(match.g[1]), comp(match.g[2]), comp(match.g[3])>>)
                    \o <<",">>
                    \o (IF match.g[4].def THEN match.g[4].s ELSE NumToString(a))
                    \o <<")">>]
        ELSE [ok |-> FALSE, s |-> <<>>]

RGBA == <<"r", "g", "b", "a">>
HSLA == <<"h", "s", "l", "a">>

\* the four attempts of ColorUtils.color, in its order
Attempts ==
    <<[as |-> RGBA, re |-> Pattern(RGB, 4), isHex |-> FALSE],
      [as |-> HSLA, re |-> Pattern(HSL, 5), isHex |-> FALSE],
      [as |-> RGBA, re |-> Pattern(HEX34, 4), isHex |-> TRUE],
      [as |-> RGBA, re |-> Pattern(HEX68, 4), isHex |-> TRUE]>>

\* if ( res = ColorUtils.parseColor( ... ) ) return res; for each attempt in
\* turn, and return color; after the last
RECURSIVE FirstParsed(_, _, _)
FirstParsed(c, alpha, tries) ==
    IF tries = <<>> THEN c
    ELSE LET res == parseColor(c, tries[1].as, tries[1].re, alpha, tries[1].isHex)
         IN  IF res.ok /\ res.s # <<>> THEN res.s
             ELSE FirstParsed(c, alpha, Tail(tries))

\* the conversion that works on the trimmed string throughout, and so gives
\* an unrecognized string back without the white space around it
colorOfTrimmed(c, alpha) ==
    IF c.t = "undef" THEN <<"u", "n", "d", "e", "f", "i", "n", "e", "d">>
    ELSE IF c.t = "obj" THEN c.s
    ELSE FirstParsed(Trim(c.s), OrDefault(alpha, JSNum(1)), Attempts)

(***************************************************************************)
(* ColorUtils.color: the colour as a string with the alpha injected.       *)
(***************************************************************************)
color(c, alpha) ==
    IF c.t = "undef" THEN <<"u", "n", "d", "e", "f", "i", "n", "e", "d">>
    ELSE IF c.t = "obj" THEN c.s
    ELSE FirstParsed(c.s, OrDefault(alpha, JSNum(1)), Attempts)

(***************************************************************************)
(* Zones (AreaChartColorZone) and zone arrays.  An optional array is the   *)
(* array or undefined.                                                     *)
(***************************************************************************)
Zone(f, t, c, o) == [from |-> f, to |-> t, color |-> c, opacity |-> o]

Arr(zs)  == [def |-> TRUE, arr |-> zs]
UndefArr == [def |-> FALSE, arr |-> <<>>]

\* value >= z.from && value <= z.to
InZone(value, z) == Ge(value, z.from) /\ Le(value, z.to)

\* the threshold rule with the threshold itself counted as negative
ThresholdColorInclusive(value, c, nc, threshold) ==
    IF Le(value, threshold) /\ Truthy(nc) THEN nc ELSE c

\* value < threshold && negativeColor ? negativeColor : color
ThresholdColor(value, c, nc, threshold) ==
    IF Lt(value, threshold) /\ Truthy(nc) THEN nc ELSE c

\* the resolution that gives up, with undefined, when a zone array that has
\* zones has none for the value, instead of going on to the threshold rule
getColorForValueZonesOnly(value, zs, c, nc, threshold) ==
    LET arr  == IF zs.def THEN zs.arr ELSE <<>>
        t    == OrDefault(threshold, JSNum(0))
        hits == {i \in 1..Len(arr) : InZone(value, arr[i])}
    IN  IF hits # {}
        THEN arr[CHOOSE i \in hits : \A j \in hits : i <= j].color
        ELSE IF arr # <<>> THEN UndefColor
        ELSE ThresholdColor(value, c, nc, t)

(***************************************************************************)
(* ColorUtils.getColorForValue                                             *)
(***************************************************************************)
getColorForValue(value, zs, c, nc, threshold) ==
    LET arr  == IF zs.def THEN zs.arr ELSE <<>>        \* zones ?? []
        t    == OrDefault(threshold, JSNum(0))
        hits == {i \in 1..Len(arr) : InZone(value, arr[i])}
    IN  IF hits # {}
        THEN arr[CHOOSE i \in hits : \A j \in hits : i <= j].color
        ELSE ThresholdColor(value, c, nc, t)

(***************************************************************************)
(* The scale (ChartJS.Scale) is the host's: a value-to-pixel mapping.      *)
(* "rev" is the usual vertical axis, pixel = a - value; "fwd" is a         *)
(* reversed axis, pixel = a + value; "nan" has no pixel for any value.     *)
(***************************************************************************)
Scale(kind, a) == [kind |-> kind, a |-> a]

getPixelForValue(scale, y) ==
    IF scale.kind = "rev" THEN Sub(JSNum(scale.a), y)
    ELSE IF scale.kind = "fwd" THEN Add(JSNum(scale.a), y)
    ELSE NaN

ChartArea(top, bottom) == [top |-> JSNum(top), bottom |-> JSNum(bottom)]

\* the clamp without its lower bound
ClampAbove(p) == MathMin(JSNum(1), p)

\* Math.max( 0, Math.min( 1, p ) )
Clamp01(p) == MathMax(JSNum(0), MathMin(JSNum(1), p))

\* the normalization without the guard on the height of the chart area, as
\* an earlier version of the controller had it (src/unnamed/part_001)
normalizePositionUnguarded(y, scale, chartArea) ==
    LET range == Sub(chartArea.bottom, chartArea.top)
    IN  MathMax(JSNum(0), MathMin(JSNum(1),
            Div(Sub(getPixelForValue(scale, y), chartArea.top), range)))

(***************************************************************************)
(* ColorUtils.normalizePosition                                            *)
(***************************************************************************)
normalizePosition(y, scale, chartArea) ==
    LET range == Sub(chartArea.bottom, chartArea.top)
    IN  IF Le(range, JSNum(0)) THEN JSNum(0)
        ELSE Clamp01(DivPos(Sub(getPixelForValue(scale, y), chartArea.top), range))

(***************************************************************************)
(* Array.prototype.sort( ( a, b ) => b.from - a.from ): a stable sort.  A  *)
(* comparator result of NaN (Infinity - Infinity) counts as 0.  The sort   *)
(* is held as the order of the indices of the array it sorts.              *)
(***************************************************************************)
CompareZones(a, b) == Sub(b.from, a.from)

IsPositive(x) == ~IsNaN(x) /\ x.n > 0

RECURSIVE InsertIndex(_, _, _)
InsertIndex(zs, order, i) ==
    IF order = <<>> THEN <<i>>
    ELSE IF IsPositive(CompareZones(zs[order[Len(order)]], zs[i]))
         THEN InsertIndex(zs, SubSeq(order, 1, Len(order) - 1), i)
                  \o <<order[Len(order)]>>
         ELSE order \o <<i>>

RECURSIVE SortOrder(_, _)
SortOrder(zs, n) ==
    IF n = 0 THEN <<>> ELSE InsertIndex(zs, SortOrder(zs, n - 1), n)

\* [ ...zones ].sort( ... ): the order in which the zones are visited
SortedZoneOrder(zs) == SortOrder(zs, Len(zs))

\* the caller's array had the sort worked on the array itself
ZonesSortedInPlace(zs) ==
    IF zs.def
    THEN Arr([k \in 1..Len(zs.arr) |-> zs.arr[SortedZoneOrder(zs.arr)[k]]])
    ELSE zs

\* the caller's array once the gradient is built: the sort works on a copy
ZonesAfterSort(zs) == zs

\* zone.opacity || fillOpacity: an opacity of 0 gives way to the fill opacity
ZoneAlphaFalsy(zone, fillOpacity) ==
    IF zone.opacity.k = "undef" \/ zone.opacity = JSNum(0)
    THEN fillOpacity ELSE zone.opacity

\* zone.opacity ?? fillOpacity
ZoneAlpha(zone, fillOpacity) ==
    IF zone.opacity.k = "undef" THEN fillOpacity ELSE zone.opacity

Stop(pos, c) == [pos |-> pos, color |-> c]

\* the body of the forEach without the test for a degenerate zone, as an
\* earlier version of the controller had it (src/unnamed/part_001)
ZoneStopsAll(zone, scale, chartArea, fillOpacity) ==
    LET start == normalizePosition(zone.from, scale, chartArea)
        end   == normalizePosition(zone.to, scale, chartArea)
        c     == color(zone.color, ZoneAlpha(zone, fillOpacity))
    IN  <<Stop(start, c), Stop(end, c)>>

\* the body of the forEach: the stops one zone adds to the gradient
ZoneStops(zone, scale, chartArea, fillOpacity) ==
    LET start == normalizePosition(zone.from, scale, chartArea)
        end   == normalizePosition(zone.to, scale, chartArea)
        c     == color(zone.color, ZoneAlpha(zone, fillOpacity))
    IN  IF StrictEq(start, end) THEN <<>>
        ELSE <<Stop(start, c), Stop(end, c)>>

RECURSIVE StopsOf(_, _, _, _, _)
StopsOf(zs, order, scale, chartArea, fillOpacity) ==
    IF order = <<>> THEN <<>>
    ELSE ZoneStops(zs[order[1]], scale, chartArea, fillOpacity)
             \o StopsOf(zs, Tail(order), scale, chartArea, fillOpacity)

(***************************************************************************)
(* ColorUtils.createMultiBandGradient: the gradient is the sequence of the *)
(* addColorStop calls made on it.  Spreading an undefined zone array       *)
(* throws a TypeError before any stop is added; the caller asks for the    *)
(* gradient only when it has an array.                                     *)
(***************************************************************************)
createMultiBandGradient(chartArea, scale, zs, fillOpacity) ==
    LET fo    == OrDefault(fillOpacity, JSNum(1))
        order == SortedZoneOrder(zs.arr)
    IN  IF ~zs.def
        THEN [raised |-> TRUE, order |-> <<>>, stops |-> <<>>]
        ELSE [raised |-> FALSE, order |-> order,
              stops |-> StopsOf(zs.arr, order, scale, chartArea, fo)]

\* the two zones of a threshold rule
ThresholdZones(c, nc, threshold) ==
    <<Zone(PosInf, threshold, c, UndefNum), Zone(threshold, NegInf, nc, UndefNum)>>

(***************************************************************************)
(* ColorUtils.createThresholdGradient                                      *)
(***************************************************************************)
createThresholdGradient(chartArea, scale, c, nc, threshold, fillOpacity) ==
    createMultiBandGradient(chartArea, scale,
        Arr(ThresholdZones(c, nc, OrDefault(threshold, JSNum(0)))),
        OrDefault(fillOpacity, JSNum(1)))

(***************************************************************************)
(* The Area controller (AreaController).  The chart's dataset is the       *)
(* record of the options the controller reads and of the point colours it  *)
(* writes, with the number of assignments user code has made to it since   *)
(* the controller was initialized; its colorZones are the variable zones.  *)
(***************************************************************************)
Bool(b)   == [k |-> "bool", b |-> b]
UndefBool == [k |-> "undef", b |-> FALSE]

\* a point colour resolver, the closure createPointColorResolver returns, as
\* the values it holds
Resolver(zs, c, nc, t, o) ==
    [made |-> TRUE, colorZones |-> zs, color |-> c, negativeColor |-> nc,
     threshold |-> t, opacity |-> o]
NoResolver ==
    [made |-> FALSE, colorZones |-> UndefArr, color |-> UndefColor,
     negativeColor |-> UndefColor, threshold |-> UndefNum, opacity |-> UndefNum]

Dataset(c, nc, t, fo, po, bc, bg, sl, cp) ==
    [color |-> c, negativeColor |-> nc, threshold |-> t, fillOpacity |-> fo,
     pointOpacity |-> po, borderColor |-> bc, backgroundColor |-> bg,
     showLine |-> sl, colorPointsByValue |-> cp,
     pointBackgroundColor |-> NoResolver, pointBorderColor |-> NoResolver,
     pointHoverBackgroundColor |-> NoResolver,
     pointHoverBorderColor |-> NoResolver,
     writes |-> 0]

\* AreaController.defaults, the options the controller reads
Defaults ==
    [threshold |-> JSNum(0), fillOpacity |-> Frac(3, 5), pointOpacity |-> JSNum(1),
     showLine |-> Bool(TRUE), colorPointsByValue |-> Bool(TRUE), borderWidth |-> 2]

\* this.dataset before initialize()
Uninitialized ==
    [def |-> FALSE, color |-> UndefColor, negativeColor |-> UndefColor,
     colorZones |-> UndefArr, threshold |-> UndefNum, fillOpacity |-> UndefNum,
     pointOpacity |-> UndefNum, borderColor |-> UndefColor,
     backgroundColor |-> UndefColor, showLine |-> UndefBool,
     colorPointsByValue |-> UndefBool]

\* { ...AreaController.defaults, ...this.getDataset() }: an option the
\* dataset does not have keeps its default
MergeDefaults(d, zs) ==
    [def |-> TRUE, color |-> d.color, negativeColor |-> d.negativeColor,
     colorZones |-> zs,
     threshold |-> OrDefault(d.threshold, Defaults.threshold),
     fillOpacity |-> OrDefault(d.fillOpacity, Defaults.fillOpacity),
     pointOpacity |-> OrDefault(d.pointOpacity, Defaults.pointOpacity),
     borderColor |-> d.borderColor, backgroundColor |-> d.backgroundColor,
     showLine |-> OrDefault(d.showLine, Defaults.showLine),
     colorPointsByValue |-> OrDefault(d.colorPointsByValue,
                                      Defaults.colorPointsByValue)]

\* the value of a line option: a colour, or a gradient as its stops
OptionOf(c)       == [t |-> c.t, s |-> c.s, stops |-> <<>>]
GradientOption(g) == [t |-> "gradient", s |-> <<>>, stops |-> g.stops]
NoOption          == [t |-> "none", s |-> <<>>, stops |-> <<>>]

LineOptions(bc, bg, bw) ==
    [made |-> TRUE, borderColor |-> bc, backgroundColor |-> bg, borderWidth |-> bw]
NoLine ==
    [made |-> FALSE, borderColor |-> NoOption, backgroundColor |-> NoOption,
     borderWidth |-> 0]

\* the colour the host gives a line whose dataset names none
HostColor == OptionOf(Str(<<"r", "g", "b", "a", "(", "0", ",", "0", ",", "0", ",", "0", ".", "1", ")">>))

\* this.resolveDatasetElementOptions( mode ), the host's: the options of the
\* line as the chart's dataset has them now
resolveDatasetElementOptions(d) ==
    LineOptions(IF d.borderColor = UndefColor THEN HostColor
                ELSE OptionOf(d.borderColor),
                IF d.backgroundColor = UndefColor THEN HostColor
                ELSE OptionOf(d.backgroundColor),
                Defaults.borderWidth)

\* the colour applyLineColors has for the border (isBackground FALSE) or the
\* background of the line: NoOption when no branch is taken
\* the test left out: the zone gradient is asked for with or without an array
hasColorZonesUntested(zs) == TRUE

\* if ( colorZones ): an array, empty or not, is truthy and undefined is not
hasColorZones(zs) == zs.def

LineColor(d, chartArea, scale, isBackground) ==
    LET fillOpacity == OrDefault(d.fillOpacity, Frac(3, 5))
        threshold   == OrDefault(d.threshold, JSNum(0))
    IN  IF hasColorZones(d.colorZones)
        THEN GradientOption(createMultiBandGradient(chartArea, scale, d.colorZones,
                IF isBackground THEN fillOpacity ELSE JSNum(1)))
        ELSE IF Truthy(d.color) /\ Truthy(d.negativeColor)
        THEN GradientOption(createThresholdGradient(chartArea, scale, d.color,
                d.negativeColor, threshold,
                IF isBackground THEN fillOpacity ELSE JSNum(1)))
        ELSE IF Truthy(d.color)
        THEN OptionOf(Str(color(d.color,
                IF isBackground THEN fillOpacity ELSE UndefNum)))
        ELSE NoOption

\* set( key, fn, ...args ): the option is written when this.dataset has no
\* value for the key
SetOption(own, old, new) ==
    IF own = UndefColor /\ new # NoOption THEN new ELSE old

\* AreaController.applyLineColors, with this.dataset as d
applyLineColors(d, line, chartArea, scale) ==
    [line EXCEPT
        !.borderColor = SetOption(d.borderColor, line.borderColor,
                            LineColor(d, chartArea, scale, FALSE)),
        !.backgroundColor = SetOption(d.backgroundColor, line.backgroundColor,
                            LineColor(d, chartArea, scale, TRUE))]

\* AreaController.createPointColorResolver, with this.dataset as d
createPointColorResolver(d, isBackground) ==
    Resolver(d.colorZones, d.color, d.negativeColor,
             OrDefault(d.threshold, JSNum(0)),
             IF isBackground THEN OrDefault(d.pointOpacity, JSNum(1)) ELSE JSNum(1))

\* the resolver called on a point whose parsed y is y (undefined: no y)
Resolve(r, y) ==
    IF y = UndefNum THEN UndefColor
    ELSE LET resolvedColor == getColorForValue(y, r.colorZones, r.color,
                                               r.negativeColor, r.threshold)
         IN  IF Truthy(resolvedColor) THEN Str(color(resolvedColor, r.opacity))
             ELSE UndefColor

\* AreaController.applyPointColors: the chart's dataset with the resolvers
applyPointColors(d, live) ==
    [live EXCEPT
        !.pointBackgroundColor = createPointColorResolver(d, TRUE),
        !.pointBorderColor = createPointColorResolver(d, FALSE),
        !.pointHoverBackgroundColor = createPointColorResolver(d, TRUE),
        !.pointHoverBorderColor = createPointColorResolver(d, FALSE)]

\* the rule set update() works with, had it been read from the chart's
\* dataset at each update
RulesAtUpdate(own, live, zs) == MergeDefaults(live, zs)

\* the rule set update() works with: this.dataset, as initialize() left it
RulesOf(own, live, zs) == own

\* the line of AreaController.update: its options resolved, its width, its
\* colours
UpdatedLine(d, live, chartArea, scale) ==
    LET resolved == resolveDatasetElementOptions(live)
        shown    == IF d.showLine = Bool(FALSE)
                    THEN [resolved EXCEPT !.borderWidth = 0] ELSE resolved
    IN  IF Truthy(d.negativeColor) \/ d.colorZones.def \/ Truthy(d.color)
        THEN applyLineColors(d, shown, chartArea, scale)
        ELSE shown

\* the chart's dataset after AreaController.update
UpdatedDataset(d, live) ==
    IF d.colorPointsByValue = Bool(TRUE) THEN applyPointColors(d, live) ELSE live

\* no chart: the colour engine on its own
NoDataset ==
    Dataset(UndefColor, UndefColor, UndefNum, UndefNum, UndefNum, UndefColor,
            UndefColor, UndefBool, UndefBool)
NoController == [dataset |-> Uninitialized, line |-> NoLine]

(***************************************************************************)
(* The inputs the callers draw from.                                       *)
(***************************************************************************)
\* the longest zone array
MaxZones == 2
\* the largest finite data value
MaxValue == 3

\* data values and thresholds
Values     == {NegInf, PosInf} \cup {JSNum(i) : i \in 0..MaxValue}
Thresholds == {UndefNum, JSNum(2)}
\* zone bounds
ZoneBounds == {JSNum(0), JSNum(2), PosInf}

ColorA   == Str(<<"A">>)
ColorB   == Str(<<"B">>)
Empty    == Str(<<>>)
Red      == Str(<<"#", "f", "0", "0">>)
Blue     == Str(<<"#", "0", "0", "0", "0", "f", "f">>)

\* the colour and opacity of the i-th zone of an array: the colour tells
\* the zones of an array apart
ZoneColors    == <<Red, Blue, ColorB, ColorA>>
ZoneOpacities == <<UndefNum, JSNum(0), Frac(1, 2), UndefNum>>

ZoneArrays ==
    UNION {{[i \in 1..n |-> Zone(f[i], t[i], ZoneColors[i], ZoneOpacities[i])] :
                f \in [1..n -> ZoneBounds], t \in [1..n -> ZoneBounds]} :
           n \in 0..MaxZones}

ChartAreas == {ChartArea(0, 4), ChartArea(1, 3), ChartArea(4, 4), ChartArea(4, 0)}
Scales     == {Scale("rev", 3), Scale("fwd", 1), Scale("nan", 0)}
\* the chart area and the axis of the end-to-end threshold scenario
ScenarioArea  == ChartArea(0, 100)
ScenarioScale == Scale("rev", 100)
\* the alpha argument of ColorUtils.color
Opacities  == {UndefNum, JSNum(1), Frac(3, 5)}
\* the fill opacity applyLineColors passes: 1 for the border, the dataset's
\* fillOpacity for the background
FillOpacities == {JSNum(1), Frac(3, 5)}

NoArea  == ChartArea(0, 0)
NoScale == Scale("nan", 0)

\* no invocation in progress
Idle ==
    [op |-> "none", value |-> UndefNum,
     color |-> UndefColor, negativeColor |-> UndefColor, threshold |-> UndefNum,
     chartArea |-> NoArea, scale |-> NoScale, fillOpacity |-> UndefNum,
     result |-> UndefColor, raised |-> FALSE, order |-> <<>>, stops |-> <<>>]

\* a dataset comes with a colorZones array or without one
Init ==
    /\ zones \in {UndefArr} \cup {Arr(zs) : zs \in ZoneArrays}
    /\ ret = Idle
    /\ ds = NoDataset
    /\ ctl = NoController

\* a point colour is resolved: ColorUtils.getColorForValue( y, colorZones, ... )
GetColorForValue ==
    /\ ret.op = "none"
    /\ \E v \in Values, c \in {UndefColor, ColorA},
          nc \in {UndefColor, Empty, ColorB}, t \in Thresholds :
            ret' = [Idle EXCEPT !.op = "getColorForValue", !.value = v,
                        !.color = c, !.negativeColor = nc, !.threshold = t,
                        !.result = getColorForValue(v, zones, c, nc, t)]
    /\ UNCHANGED <<zones, ds, ctl>>

\* a zone gradient is built, for a dataset with colorZones:
\* if ( colorZones ) ColorUtils.createMultiBandGradient( ..., colorZones, ... )
CreateMultiBandGradient ==
    /\ ret.op = "none"
    /\ hasColorZones(zones)
    /\ \E area \in ChartAreas, scale \in Scales, fo \in FillOpacities :
            LET g == createMultiBandGradient(area, scale, zones, fo)
            IN  ret' = [Idle EXCEPT !.op = "createMultiBandGradient",
                            !.chartArea = area, !.scale = scale,
                            !.fillOpacity = fo, !.raised = g.raised,
                            !.order = g.order, !.stops = g.stops]
    /\ zones' = ZonesAfterSort(zones)
    /\ UNCHANGED <<ds, ctl>>

\* a threshold gradient is built, for a dataset without colorZones:
\* ColorUtils.createThresholdGradient( ... )
CreateThresholdGradient ==
    /\ ret.op = "none"
    /\ ~hasColorZones(zones)
    /\ \E area \in ChartAreas \cup {ScenarioArea},
          scale \in Scales \cup {ScenarioScale}, fo \in FillOpacities,
          c \in {ColorA, Red}, nc \in {ColorB, Blue},
          t \in Thresholds \cup {JSNum(0)} :
            LET g == createThresholdGradient(area, scale, c, nc, t, fo)
            IN  ret' = [Idle EXCEPT !.op = "createThresholdGradient",
                            !.color = c, !.negativeColor = nc, !.threshold = t,
                            !.chartArea = area, !.scale = scale,
                            !.fillOpacity = fo, !.raised = g.raised,
                            !.order = g.order, !.stops = g.stops]
    /\ UNCHANGED <<zones, ds, ctl>>

\* the caller takes the result; nothing of the invocation is kept
Return ==
    /\ ret.op # "none"
    /\ ret' = Idle
    /\ UNCHANGED <<zones, ds, ctl>>

Next ==
    \/ GetColorForValue
    \/ CreateMultiBandGradient
    \/ CreateThresholdGradient
    \/ Return

Spec == Init /\ [][Next]_vars

(***************************************************************************)
(* ColorUtils.color on its own.  A recognized colour string is written     *)
(* from its parts: the family, the function name, the three components,    *)
(* the unit of the hue, the separator of the components, and the alpha     *)
(* with what separates it from the third component (no alpha: <<>>).       *)
(***************************************************************************)
Parts(fam, fn, c, unit, sep, asep, alpha) ==
    [fam |-> fam, fn |-> fn, c |-> c, unit |-> unit, sep |-> sep,
     asep |-> asep, alpha |-> alpha]

\* the colour string of the parts
Text(p) ==
    IF p.fam = "hex"
    THEN <<"#">> \o p.c[1] \o p.c[2] \o p.c[3] \o p.alpha
    ELSE LET pct == IF p.fam = "hsl" THEN <<"%">> ELSE <<>>
         IN  p.fn \o <<"(">> \o p.c[1] \o p.unit \o p.sep \o p.c[2] \o pct
                 \o p.sep \o p.c[3] \o pct
                 \o (IF p.alpha = <<>> THEN <<>> ELSE p.asep \o p.alpha)
                 \o <<")">>

\* separators of components, and alphas with their separators
Separators == {<<",">>, <<",", " ">>, <<" ">>}
NoAlpha    == <<<<>>, <<>>>>
Alphas     == {NoAlpha, <<<<",">>, <<"0", ".", "9">>>>, <<<<" ", "/", " ">>, <<".", "5">>>>, <<<<",", " ">>, <<"5", "0", "%">>>>}

RgbParts ==
    {Parts("rgb", fn, <<<<"1", "0">>, <<"2", "0">>, <<"3", "0", ".", "5">>>>, <<>>, sep, a[1], a[2]) :
        fn \in {<<"r", "g", "b">>, <<"r", "g", "b", "a">>}, sep \in Separators, a \in Alphas}

HslParts ==
    {Parts("hsl", fn, <<h, <<"5", "0">>, <<"2", "5">>>>, unit, <<",", " ">>, a[1], a[2]) :
        fn \in {<<"h", "s", "l">>, <<"H", "S", "L", "A">>}, h \in {<<"1", "2", "0">>, <<"-", "9", "0", ".", "5">>},
        unit \in {<<>>, <<"d", "e", "g">>, <<"r", "a", "d">>},
        a \in {NoAlpha, <<<<",">>, <<"0", ".", "9">>>>}}

HexParts ==
    {Parts("hex", <<>>, c, <<>>, <<>>, <<>>, a) :
        c \in {<<<<"f">>, <<"0">>, <<"0">>>>}, a \in {<<>>, <<"a">>}}
    \cup {Parts("hex", <<>>, c, <<>>, <<>>, <<>>, a) :
        c \in {<<<<"F", "f">>, <<"0", "0">>, <<"0", "0">>>>}, a \in {<<>>, <<"8", "0">>}}

Recognized == RgbParts \cup HslParts \cup HexParts

\* strings none of the four patterns matches
Unrecognized ==
    {Str(<<"r", "e", "d">>), Str(<<" ", "r", "e", "d", " ">>), Str(<<>>), Str(<<"r", "g", "b", "(", "1", ",", "2", ")">>), Str(<<"#", "f", "f", "0", "0", "f">>),
     Str(<<"h", "s", "l", "(", "1", "2", "0", ",", "5", "0", ",", "2", "5", ")">>), Str(<<"r", "g", "b", "(", "1", "0", "0", "0", ",", "2", ",", "3", ")">>)}

\* a colour that is no string: a CanvasGradient
Gradient == Obj(<<"[", "o", "b", "j", "e", "c", "t", " ", "C", "a", "n", "v", "a", "s", "G", "r", "a", "d", "i", "e", "n", "t", "]">>)

ColorInputs ==
    {Str(Text(p)) : p \in Recognized}
        \cup {Str(<<" ">> \o Text(p) \o <<" ">>) : p \in HexParts}
        \cup Unrecognized \cup {Gradient}

\* ColorUtils.color( color, alpha ) is called
Color ==
    /\ ret.op = "none"
    /\ \E c \in ColorInputs, alpha \in Opacities :
            ret' = [Idle EXCEPT !.op = "color", !.color = c,
                        !.fillOpacity = alpha, !.result = Str(color(c, alpha))]
    /\ UNCHANGED <<zones, ds, ctl>>

InitColor ==
    /\ zones = UndefArr
    /\ ret = Idle
    /\ ds = NoDataset
    /\ ctl = NoController

NextColor ==
    \/ Color
    \/ Return

SpecColor == InitColor /\ [][NextColor]_vars

(***************************************************************************)
(* The controller in its chart: initialize() once, then updates, with user *)
(* code assigning options of the chart's dataset in between.               *)
(***************************************************************************)
\* the most assignments user code makes to the dataset after initialize()
MaxReassign == 1

\* the values user code gives the options
OptionValues ==
    [color |-> {UndefColor, Red}, negativeColor |-> {UndefColor, Blue},
     threshold |-> {UndefNum, JSNum(2)}, fillOpacity |-> {UndefNum, Frac(1, 2)},
     pointOpacity |-> {UndefNum, Frac(1, 4)},
     borderColor |-> {UndefColor, ColorA}, backgroundColor |-> {UndefColor, ColorA},
     showLine |-> {UndefBool, Bool(FALSE)},
     colorPointsByValue |-> {UndefBool, Bool(FALSE)}]

\* the colorZones user code gives the dataset
ControllerZones ==
    {UndefArr, Arr(<<>>), Arr(<<Zone(JSNum(0), JSNum(2), Blue, UndefNum)>>)}

\* the datasets a chart is created with: the colours and overrides in every
\* combination, the other options all absent, all given, or switched off
InitialDatasets ==
    {Dataset(c, nc, o[1], o[2], o[3], bc, bg, o[4], o[5]) :
        c \in OptionValues.color, nc \in OptionValues.negativeColor,
        bc \in OptionValues.borderColor, bg \in OptionValues.backgroundColor,
        o \in {<<UndefNum, UndefNum, UndefNum, UndefBool, UndefBool>>,
               <<JSNum(2), Frac(1, 2), Frac(1, 4), UndefBool, UndefBool>>,
               <<UndefNum, UndefNum, UndefNum, Bool(FALSE), Bool(FALSE)>>}}

\* the chart area and the scale of the chart
ControllerArea  == ChartArea(0, 4)
ControllerScale == Scale("rev", 3)

InitController ==
    /\ zones \in ControllerZones
    /\ ds \in InitialDatasets
    /\ ctl = NoController
    /\ ret = Idle

\* AreaController.initialize
Initialize ==
    /\ ret.op = "none"
    /\ ~ctl.dataset.def
    /\ ctl' = [ctl EXCEPT !.dataset = MergeDefaults(ds, zones)]
    /\ ret' = [Idle EXCEPT !.op = "initialize"]
    /\ UNCHANGED <<zones, ds>>

\* user code assigns an option of the chart's dataset
Reassign ==
    /\ ret.op = "none"
    /\ ctl.dataset.def
    /\ ds.writes < MaxReassign
    /\ \/ /\ \E f \in DOMAIN OptionValues : \E v \in OptionValues[f] \ {ds[f]} :
                ds' = [ds EXCEPT ![f] = v, !.writes = @ + 1]
          /\ UNCHANGED zones
       \/ /\ \E zs \in ControllerZones \ {zones} : zones' = zs
          /\ ds' = [ds EXCEPT !.writes = @ + 1]
    /\ UNCHANGED <<ret, ctl>>

\* AreaController.update: without a scale or a line it returns after the
\* host's update
Update ==
    /\ ret.op = "none"
    /\ ctl.dataset.def
    /\ \E ready \in BOOLEAN :
          LET d == RulesOf(ctl.dataset, ds, zones)
          IN  /\ ret' = [Idle EXCEPT !.op = "update", !.raised = ~ready,
                              !.chartArea = ControllerArea,
                              !.scale = ControllerScale]
              /\ ctl' = IF ready
                        THEN [ctl EXCEPT !.line =
                                UpdatedLine(d, ds, ControllerArea, ControllerScale)]
                        ELSE ctl
              /\ ds' = IF ready THEN UpdatedDataset(d, ds) ELSE ds
    /\ UNCHANGED zones

NextController ==
    \/ Initialize
    \/ Reassign
    \/ Update
    \/ Return

SpecController == InitController /\ [][NextController]_vars

(***************************************************************************)
(* Properties of ColorUtils.getColorForValue                               *)
(***************************************************************************)
\* min(z.from, z.to) <= v <= max(z.from, z.to)
Between(v, z) == Le(MathMin(z.from, z.to), v) /\ Le(v, MathMax(z.from, z.to))

\* the zone array the invocation in progress was given is undefined or empty
NoZones == ~zones.def \/ zones.arr = <<>>

\* the threshold the invocation in progress works with
CallThreshold == OrDefault(ret.threshold, JSNum(0))

\* C1: for a single zone z, whatever the order of its bounds, and a value v
\* with min(z.from, z.to) <= v <= max(z.from, z.to), getColorForValue(v, [z], ...)
\* returns z.color.
C1_SingleZoneColor ==
    (/\ ret.op = "getColorForValue"
     /\ zones.def /\ Len(zones.arr) = 1
     /\ Between(ret.value, zones.arr[1]))
        => ret.result = zones.arr[1].color

\* C2: first match wins: when two zones of the array both contain the value,
\* getColorForValue returns the colour of the earliest zone, in array order,
\* that contains it, whatever the order of the zones' bounds.
C2_FirstMatchWins ==
    (/\ ret.op = "getColorForValue"
     /\ zones.def)
        => \A i, j \in 1..Len(zones.arr) :
              (/\ i < j
               /\ Between(ret.value, zones.arr[i])
               /\ Between(ret.value, zones.arr[j])
               /\ \A h \in 1..(i - 1) : ~Between(ret.value, zones.arr[h]))
                  => ret.result = zones.arr[i].color

\* C3 as stated: without zones, getColorForValue returns negativeColor if
\* v < threshold and negativeColor is defined, and color otherwise.
C3_DefinedNegativeColor ==
    (ret.op = "getColorForValue" /\ NoZones)
        => ret.result = IF Lt(ret.value, CallThreshold)
                           /\ ret.negativeColor # UndefColor
                        THEN ret.negativeColor ELSE ret.color

\* C3, amended: without zones (undefined or empty), getColorForValue returns
\* negativeColor if v < threshold and negativeColor is truthy (defined and not
\* the empty string), and color otherwise; v = threshold yields color, and the
\* result is undefined exactly when the colour so selected is not supplied.
C3_ThresholdRule ==
    (ret.op = "getColorForValue" /\ NoZones)
        => LET neg == Lt(ret.value, CallThreshold)
                         /\ ret.negativeColor \notin {UndefColor, Empty}
           IN  /\ neg => ret.result = ret.negativeColor
               /\ ~neg => ret.result = ret.color
               /\ ret.value = CallThreshold => ret.result = ret.color
               /\ ret.result = UndefColor
                     <=> (IF neg THEN ret.negativeColor ELSE ret.color) = UndefColor

\* C3 happens: below the threshold the negative colour is returned, and an
\* empty negative colour is passed over for the colour
C3_Witness ==
    /\ ret.op = "getColorForValue" /\ NoZones
    /\ Lt(ret.value, CallThreshold)
    /\ ret.negativeColor = Empty
    /\ ret.color = ColorA /\ ret.result = ColorA

\* C4: threshold equivalence: getColorForValue(v, undefined, c, nc, t) equals
\* getColorForValue applied to v with the zone array
\* [{from: +Infinity, to: t, color: c}, {from: t, to: -Infinity, color: nc}]
\* and no threshold colours.
C4_ThresholdEquivalence ==
    (ret.op = "getColorForValue" /\ ~zones.def)
        => ret.result =
              getColorForValue(ret.value,
                  Arr(ThresholdZones(ret.color, ret.negativeColor, CallThreshold)),
                  UndefColor, UndefColor, UndefNum)

(***************************************************************************)
(* Properties of the gradients                                             *)
(***************************************************************************)
\* a gradient was built and returned
GradientBuilt ==
    /\ ret.op \in {"createMultiBandGradient", "createThresholdGradient"}
    /\ ~ret.raised

\* the zone array the gradient in progress was built from
CallZones ==
    IF ret.op = "createThresholdGradient"
    THEN ThresholdZones(ret.color, ret.negativeColor, CallThreshold)
    ELSE zones.arr

\* the normalized start and end position of a zone in the invocation in progress
StartOf(z) == normalizePosition(z.from, ret.scale, ret.chartArea)
EndOf(z)   == normalizePosition(z.to, ret.scale, ret.chartArea)

\* the zones that are not degenerate, in the order they were visited
Emitting ==
    SelectSeq([k \in 1..Len(ret.order) |-> CallZones[ret.order[k]]],
              LAMBDA z : ~StrictEq(StartOf(z), EndOf(z)))

\* C5: createMultiBandGradient emits two stops, of one colour, at the normalized
\* start and end position, for every zone whose two positions differ, and none
\* for a zone whose two positions are equal: 2n stops for n such zones.
C5_TwoStopsPerZone ==
    GradientBuilt =>
        /\ Len(ret.stops) = 2 * Len(Emitting)
        /\ \A k \in 1..Len(Emitting) :
              /\ ret.stops[2 * k - 1].pos = StartOf(Emitting[k])
              /\ ret.stops[2 * k].pos = EndOf(Emitting[k])
              /\ ret.stops[2 * k - 1].color = ret.stops[2 * k].color

\* C5 happens: of two zones, one is degenerate and the other emits its two stops
C5_Witness ==
    /\ GradientBuilt
    /\ Len(CallZones) = 2 /\ Len(Emitting) = 1
    /\ Len(ret.stops) = 2

\* a position lies in [0, 1]
InUnit(p) == Le(JSNum(0), p) /\ Le(p, JSNum(1))

\* C6: every stop position given to addColorStop lies in [0, 1], for every zone
\* array, chart area and value-to-pixel mapping.
C6_StopsInUnit ==
    GradientBuilt => \A k \in 1..Len(ret.stops) : InUnit(ret.stops[k].pos)

\* the invocation of the end-to-end scenario: top 0, bottom 100,
\* pixel = 100 - value, colours A and B, threshold 0, fill opacity 1
C7_Scenario ==
    /\ ret.op = "createThresholdGradient"
    /\ ret.chartArea = ScenarioArea
    /\ ret.scale = ScenarioScale
    /\ ret.color = ColorA /\ ret.negativeColor = ColorB
    /\ CallThreshold = JSNum(0)
    /\ OrDefault(ret.fillOpacity, JSNum(1)) = JSNum(1)

\* C7 as stated: the scenario gives 4 stops, at 0, 1, 1, 0, coloured A, A, B, B.
C7_FourStops ==
    C7_Scenario =>
        ret.stops = <<Stop(JSNum(0), ColorA.s), Stop(JSNum(1), ColorA.s),
                      Stop(JSNum(1), ColorB.s), Stop(JSNum(0), ColorB.s)>>

\* C7, amended: the scenario gives 2 stops, at 0 and 1, both coloured A: the
\* negative zone {from: 0, to: -Infinity} has both bounds at position 1 and
\* emits nothing.
C7_TwoStops ==
    C7_Scenario =>
        /\ ~ret.raised
        /\ ret.stops = <<Stop(JSNum(0), ColorA.s), Stop(JSNum(1), ColorA.s)>>

\* C7 happens: the scenario is invoked and returns its gradient
C7_Witness == C7_Scenario /\ Len(ret.stops) = 2

\* the order of the visit is the array sorted by descending from, zones of
\* equal from in array order
DescendingStable(order, zs) ==
    /\ Len(order) = Len(zs)
    /\ {order[k] : k \in 1..Len(order)} = 1..Len(zs)
    /\ \A k \in 1..(Len(order) - 1) :
          \/ Lt(zs[order[k + 1]].from, zs[order[k]].from)
          \/ (zs[order[k + 1]].from = zs[order[k]].from /\ order[k] < order[k + 1])

\* C8: createMultiBandGradient visits the zones in descending order of from,
\* zones of equal from in the caller's order, and leaves the caller's array
\* with the same elements in the same order.
C8_SortsACopy ==
    [][(ret'.op = "createMultiBandGradient" /\ ~ret'.raised)
          => (zones' = zones /\ DescendingStable(ret'.order, zones.arr))]_vars

\* C8 happens: the visit swapped the two zones of the array, which is as it was
C8_Witness ==
    /\ ret.op = "createMultiBandGradient"
    /\ ret.order = <<2, 1>>
    /\ Lt(zones.arr[1].from, zones.arr[2].from)

\* C9: every zone that emits stops emits them in the colour
\* ColorUtils.color(zone.color, a), a being zone.opacity when it is defined,
\* 0 included, and the fillOpacity argument only when it is undefined.
C9_ZoneOpacityWins ==
    GradientBuilt =>
        /\ Len(ret.stops) = 2 * Len(Emitting)
        /\ \A k \in 1..Len(Emitting) :
              LET z == Emitting[k]
                  a == IF z.opacity # UndefNum THEN z.opacity
                       ELSE OrDefault(ret.fillOpacity, JSNum(1))
              IN  /\ ret.stops[2 * k - 1].color = color(z.color, a)
                  /\ ret.stops[2 * k].color = color(z.color, a)

\* C9 happens: a zone of opacity 0 emits its stops with alpha 0 while the
\* fill opacity is 0.6
C9_Witness ==
    /\ ret.op = "createMultiBandGradient"
    /\ ret.fillOpacity = Frac(3, 5)
    /\ \E k \in 1..Len(Emitting) :
          /\ Emitting[k].opacity = JSNum(0)
          /\ ret.stops[2 * k].color =
                <<"r", "g", "b", "a", "(", "0", ",", "0", ",", "2", "5", "5", ",", "0", ")">>

\* the chart area of the invocation in progress has no height
NoHeight == Le(Sub(ret.chartArea.bottom, ret.chartArea.top), JSNum(0))

\* C10: when the chart area has non-positive height, every normalized position
\* is 0, every zone is degenerate, and the gradient is returned with no stops.
C10_NoHeightNoStops ==
    (GradientBuilt /\ NoHeight) =>
        /\ \A k \in 1..Len(CallZones) :
              StartOf(CallZones[k]) = JSNum(0) /\ EndOf(CallZones[k]) = JSNum(0)
        /\ ret.stops = <<>>

\* C10 happens: a gradient over zones with distinct bounds is built on a chart
\* area of negative height and has no stops
C10_Witness ==
    /\ GradientBuilt /\ NoHeight
    /\ ret.chartArea = ChartArea(4, 0)
    /\ \E k \in 1..Len(CallZones) : CallZones[k].from # CallZones[k].to
    /\ ret.stops = <<>>

StopsHavePositions == \A k \in 1..Len(ret.stops) : ~IsNaN(ret.stops[k].pos)

\* C15: the stops createMultiBandGradient adds, after its sort by descending
\* from, are at positions that never decrease in the order they are added
\* (stated for the gradients all of whose positions are numbers).
C15_MonotoneStops ==
    (GradientBuilt /\ StopsHavePositions) =>
        \A k \in 1..(Len(ret.stops) - 1) :
            Le(ret.stops[k].pos, ret.stops[k + 1].pos)

(***************************************************************************)
(* The zone array has zones and none of them has the value                 *)
(***************************************************************************)
NoZoneHasValue ==
    /\ ret.op = "getColorForValue"
    /\ zones.def /\ zones.arr # <<>>
    /\ \A i \in 1..Len(zones.arr) : ~InZone(ret.value, zones.arr[i])

\* C17 as stated: when the zone array has zones and none contains the value,
\* getColorForValue returns negativeColor if value < threshold and negativeColor
\* is defined, and color otherwise.
C17_DefinedFallThrough ==
    NoZoneHasValue =>
        ret.result = IF Lt(ret.value, CallThreshold)
                         /\ ret.negativeColor # UndefColor
                      THEN ret.negativeColor ELSE ret.color

\* C17, amended: when the zone array has zones and none contains the value,
\* getColorForValue returns negativeColor if value < threshold and negativeColor
\* is truthy (defined and not the empty string), and color otherwise; the
\* result is undefined only when the colour so selected is.
C17_FallsThrough ==
    NoZoneHasValue =>
        /\ ret.result = IF Lt(ret.value, CallThreshold) /\ Truthy(ret.negativeColor)
                        THEN ret.negativeColor ELSE ret.color
        /\ (ret.result = UndefColor) <=>
              (IF Lt(ret.value, CallThreshold) /\ Truthy(ret.negativeColor)
               THEN ret.negativeColor ELSE ret.color) = UndefColor

\* C17 happens: no zone of a two-zone array has the value, which is below the
\* threshold, and the result is the negative colour
C17_Witness ==
    /\ NoZoneHasValue
    /\ Len(zones.arr) = 2
    /\ Lt(ret.value, CallThreshold)
    /\ ret.negativeColor = ColorB
    /\ ret.result = ColorB

(***************************************************************************)
(* Properties of ColorUtils.color                                          *)
(***************************************************************************)
\* color was called on the string of the parts, with or without white space
\* around it
CalledWith(p) ==
    /\ ret.op = "color"
    /\ ret.color.t = "str"
    /\ Trim(ret.color.s) = Text(p)

\* the alpha the call works with
CallAlpha == OrDefault(ret.fillOpacity, JSNum(1))

\* the last component of a functional colour string: what stands between its
\* last comma and its closing parenthesis
AlphaOf(out) ==
    LET commas == {i \in 1..Len(out) : out[i] = ","}
    IN  IF commas = {} \/ out = <<>> THEN <<>>
        ELSE SubSeq(out, (CHOOSE i \in commas : \A j \in commas : j <= i) + 1,
                    Len(out) - 1)

\* the alpha a recognized string carries: the alpha component as written, or
\* the alpha digits of a hex colour as a fraction of 255
EmbeddedAlpha(p) ==
    IF p.fam = "hex"
    THEN NumToString(Frac(ParseHex(IF Len(p.alpha) = 1 THEN p.alpha \o p.alpha
                                   ELSE p.alpha), 255))
    ELSE p.alpha

\* C12: for a recognized colour string, the alpha component of the output is
\* the alpha the string carries when it carries one, and the alpha argument
\* when it carries none.
C12_AlphaComponent ==
    \A p \in Recognized :
        CalledWith(p) =>
            AlphaOf(ret.result.s) = IF p.alpha # <<>> THEN EmbeddedAlpha(p)
                                    ELSE NumToString(CallAlpha)

\* the output for the parts up to its alpha: the function of the family and
\* the three components, those of a hex colour in decimal
Reassembled(p) ==
    IF p.fam = "hsl"
    THEN <<"h", "s", "l", "a", "(">> \o p.c[1] \o <<",">> \o p.c[2] \o <<"%", ",">> \o p.c[3] \o <<"%", ",">>
    ELSE IF p.fam = "rgb"
    THEN <<"r", "g", "b", "a", "(">> \o p.c[1] \o <<",">> \o p.c[2] \o <<",">> \o p.c[3] \o <<",">>
    ELSE LET dec(v) == NatToChars(ParseHex(IF Len(v) = 1 THEN v \o v ELSE v))
         IN  <<"r", "g", "b", "a", "(">> \o dec(p.c[1]) \o <<",">> \o dec(p.c[2]) \o <<",">>
                 \o dec(p.c[3]) \o <<",">>

\* C13: for a string one of the four patterns matches, the output is the
\* four-component string of the family: rgba(r,g,b,a) for rgb, rgba and hex
\* input, hsla(h,s%,l%,a) for hsl and hsla input, with the hue, saturation
\* and lightness of the input, whether or not the hue has a unit.
C13_Reassembled ==
    \A p \in Recognized :
        CalledWith(p) =>
            LET out  == ret.result.s
                head == Reassembled(p)
            IN  /\ Len(out) > Len(head) + 1
                /\ SubSeq(out, 1, Len(head)) = head
                /\ out[Len(out)] = ")"
                /\ \A i \in (Len(head) + 1)..Len(out) : out[i] # ","

\* C14: an input that is no string comes back as its string conversion and
\* a string none of the patterns matches comes back as it is, whatever the
\* alpha; converting the result again, with any alpha, changes nothing.
C14_PassThrough ==
    (ret.op = "color" /\ ret.color \in Unrecognized \cup {Gradient}) =>
        /\ ret.result.s = ret.color.s
        /\ \A a \in Opacities : color(ret.color, a) = ret.result.s
        /\ \A b \in Opacities : color(Str(ret.result.s), b) = ret.result.s

\* C14 happens: ' red ' is converted with alpha 0.6 and comes back as it is
C14_Witness ==
    /\ ret.op = "color"
    /\ ret.color = Str(<<" ", "r", "e", "d", " ">>)
    /\ ret.fillOpacity = Frac(3, 5)
    /\ ret.result = Str(<<" ", "r", "e", "d", " ">>)

(***************************************************************************)
(* Properties of the controller                                            *)
(***************************************************************************)
\* update() has run to its end
Updated == ret.op = "update" /\ ~ret.raised

\* the two line options applyLineColors writes
LineKeys == {"borderColor", "backgroundColor"}

\* C16: update() chooses the line colours by precedence, the zone gradient if
\* colorZones is set, else the threshold gradient if color and negativeColor
\* are, else the solid colour if color is; and it writes borderColor or
\* backgroundColor only when the dataset does not supply that option itself:
\* an option the user supplies is left as the user has it.
C16_LineColours ==
    Updated =>
        \A key \in LineKeys :
            LET chosen == LineColor(ctl.dataset, ret.chartArea, ret.scale,
                                    key = "backgroundColor")
            IN  ctl.line[key] =
                    IF ds[key] # UndefColor THEN OptionOf(ds[key])
                    ELSE IF chosen # NoOption THEN chosen
                    ELSE HostColor

\* parsed y values of points: none, below and above the thresholds
PointValues == {UndefNum, NegInf, JSNum(1), JSNum(3)}

\* the colour a point at y is given, from the rule set d
PointColor(d, y, isBackground) ==
    LET c == getColorForValue(y, d.colorZones, d.color, d.negativeColor, d.threshold)
    IN  IF y = UndefNum \/ ~Truthy(c) THEN UndefColor
        ELSE Str(color(c, IF isBackground THEN d.pointOpacity ELSE JSNum(1)))

\* C18: the rule set of the controller is the dataset as initialize() found
\* it, merged over the defaults; no assignment to the dataset and no update
\* changes it, and every update() computes the line colours and the point
\* colour resolvers from it, not from the dataset as it is then.
C18_SnapshotAtInitialize ==
    [][/\ ret'.op = "initialize" => ctl'.dataset = MergeDefaults(ds, zones)
       /\ ctl.dataset.def => ctl'.dataset = ctl.dataset
       /\ (ret'.op = "update" /\ ~ret'.raised) =>
            /\ ctl'.line = UpdatedLine(ctl.dataset, ds, ret'.chartArea, ret'.scale)
            /\ ds' = UpdatedDataset(ctl.dataset, ds)
            /\ ctl.dataset.colorPointsByValue = Bool(TRUE) =>
                 \A y \in PointValues :
                    /\ Resolve(ds'.pointBackgroundColor, y)
                          = PointColor(ctl.dataset, y, TRUE)
                    /\ Resolve(ds'.pointBorderColor, y)
                          = PointColor(ctl.dataset, y, FALSE)]_vars

\* C18 happens: the dataset had the colour #f00 at initialize() and has none
\* when update() runs, and the line and the points are coloured from #f00
C18_Witness ==
    /\ Updated
    /\ ctl.dataset.color = Red /\ ds.color = UndefColor /\ ds.writes = 1
    /\ ~ctl.dataset.colorZones.def /\ ctl.dataset.negativeColor = UndefColor
    /\ ctl.line.borderColor = OptionOf(Str(<<"r", "g", "b", "a", "(", "2", "5", "5", ",", "0", ",", "0", ",", "1", ")">>))
    /\ ctl.line.backgroundColor = OptionOf(Str(<<"r", "g", "b", "a", "(", "2", "5", "5", ",", "0", ",", "0", ",", "0", ".", "6", ")">>))
    /\ Resolve(ds.pointBorderColor, JSNum(1)) = Str(<<"r", "g", "b", "a", "(", "2", "5", "5", ",", "0", ",", "0", ",", "1", ")">>)

====
